---- MODULE Spec2Model ----
(***************************************************************************)
(* Model of the two bulletin watchers of this repository:                  *)
(*   agent   = agent_koreanair_watcher.py     (browser click collection)   *)
(*   kalmate = kalmate_notice_watcher_multi.py (HTTP + HTML parsing)       *)
(* Each run of main() is one action.  The state between runs is what the   *)
(* process leaves on disk: the seen-posts JSON file and the baseline       *)
(* marker file.  What a run reads from its environment (the extracted      *)
(* candidates, the environment variables, the answer of the Telegram API)  *)
(* is drawn from small sets.                                               *)
(***************************************************************************)
EXTENDS Integers, Sequences, FiniteSets, TLC

VARIABLES
    watcher,    \* which script this deployment runs: "agent" or "kalmate"
    stateFile,  \* STATE_FILE (seen_posts.json): [kind, data]
    marker,     \* BASELINE_FLAG / BASELINE_FLAG_FILE exists
    clock,      \* number of runs so far; run k reads int(time.time()) = k
    last,       \* what the most recent run of main() did
    attempts,   \* runs so far that called notify_telegram with a snapshot
    forced,     \* some run so far had FORCE_SNAPSHOT set
    scen,       \* progress of the three-run end-to-end scenario (-1: left it)
    text,       \* date parsing: the text handed to the date parsers
    parsed,     \* date parsing: results computed so far, by parser name
    lst,        \* dedup and ordering: the candidate list and what became of it
    click,      \* click collection: position and page of the candidate loop
    cfg,        \* fixed deployment: the environment variables every run sees
    sent        \* fixed deployment: messages delivered so far, per post id

mainVars == <<watcher, stateFile, marker, clock, last, attempts, forced, scen>>
dateVars == <<text, parsed>>
vars == <<watcher, stateFile, marker, clock, last, attempts, forced, scen, text, parsed,
          lst, click, cfg, sent>>

----------------------------------------------------------------------------
(* Bounds *)

MaxRuns == 3        \* runs of main() in one behaviour
MaxCand == 3        \* candidates one extraction pass yields
MaxTopN == 2        \* largest SNAPSHOT_TOP_N / FIRST_RUN_TOP_N tried
MaxList == 4        \* candidates in a list given to dedup and ordering
MaxClick == 3       \* candidates the click loop tries: n = min(total, MAX_LIST)

----------------------------------------------------------------------------
(* Posts *)

Ids == {1, 2, 3}                    \* P1, P2, P3
NoDate == <<>>                      \* Post.date is None

\* The date each post carries on its detail page / list row.
DateOf(i) ==
    CASE i = 1 -> <<2025, 3, 1>>
      [] i = 2 -> <<2025, 2, 20>>
      [] OTHER -> <<2025, 3, 5>>

\* class Post: the id is the URL (agent) or the seq_no the URL is built from
\* (kalmate); the title is whatever the page shows for that post.
Post(i, d) == [id |-> i, title |-> i, url |-> i, date |-> d]

Posts == {Post(i, DateOf(i)) : i \in Ids}

RECURSIVE SeqsUpTo(_, _)
SeqsUpTo(S, n) ==
    IF n = 0 THEN {<<>>}
    ELSE LET shorter == SeqsUpTo(S, n - 1)
         IN  shorter \cup {Append(s, x) : s \in {t \in shorter : Len(t) = n - 1}, x \in S}

\* What one extraction pass can yield, in display order, before dedup.
Candidates == SeqsUpTo(Posts, MaxCand)

IdsOf(ps) == {ps[k].id : k \in 1..Len(ps)}
IdSeq(ps) == [k \in 1..Len(ps) |-> ps[k].id]

----------------------------------------------------------------------------
(* Ordering and deduplication *)

RECURSIVE TupleLess(_, _)
\* Python's tuple comparison a < b (lexicographic).
TupleLess(a, b) ==
    IF a = <<>> THEN b # <<>>
    ELSE IF b = <<>> THEN FALSE
    ELSE IF a[1] # b[1] THEN a[1] < b[1]
    ELSE TupleLess(Tail(a), Tail(b))

\* agent main.key_func: (y, m, d) of the date, (0, 0, 0) without one.
key_func(p) == IF p.date = NoDate THEN <<0, 0, 0>> ELSE p.date

\* kalmate date_to_int: YYYYMMDD as an integer, -1 without a date.
date_to_int(d) == IF d = NoDate THEN -1 ELSE d[1] * 10000 + d[2] * 100 + d[3]

\* kalmate safe_int: the digits of the id as an integer.
safe_int(i) == i

\* kalmate sort_key_post: (date, seq_no).
sort_key_post(p) == <<date_to_int(p.date), safe_int(p.id)>>

\* An insertion that puts x before the elements of equal key.
InsertDescBeforeEqual(r, x) ==
    LET notLarger == {j \in 1..Len(r) : ~TupleLess(x.key, r[j].key)}
        at == IF notLarger = {} THEN Len(r) + 1
              ELSE CHOOSE j \in notLarger : \A k \in notLarger : j <= k
    IN  SubSeq(r, 1, at - 1) \o <<x>> \o SubSeq(r, at, Len(r))

\* The keyed element x put into the descending list r behind every element
\* whose key is not smaller: what a stable sort with reverse=True does with
\* equal keys.
InsertDesc(r, x) ==
    LET smaller == {j \in 1..Len(r) : TupleLess(r[j].key, x.key)}
        at == IF smaller = {} THEN Len(r) + 1
              ELSE CHOOSE j \in smaller : \A k \in smaller : j <= k
    IN  SubSeq(r, 1, at - 1) \o <<x>> \o SubSeq(r, at, Len(r))

RECURSIVE SortFrom(_, _)
SortFrom(r, kps) ==
    IF kps = <<>> THEN r ELSE SortFrom(InsertDesc(r, Head(kps)), Tail(kps))

\* list.sort(key=..., reverse=True) / sorted(..., key=..., reverse=True) on
\* elements paired with their keys: ordered by key, descending, stable.
SortDesc(keyed) ==
    LET sorted == SortFrom(<<>>, keyed)
    IN  [k \in 1..Len(keyed) |-> sorted[k].val]

\* agent: posts.sort(key=key_func, reverse=True)
SortByKeyFunc(ps) == SortDesc([k \in 1..Len(ps) |-> [key |-> key_func(ps[k]), val |-> ps[k]]])

\* kalmate: sorted(posts, key=sort_key_post, reverse=True)
SortByPostKey(ps) == SortDesc([k \in 1..Len(ps) |-> [key |-> sort_key_post(ps[k]), val |-> ps[k]]])

\* A dedup that drops nothing.
DedupKeepAll(ps, uniq) == ps

RECURSIVE DedupFirst(_, _)
\* agent collect_posts_by_click, "uniq, out": the first post of each id is kept.
DedupFirst(ps, uniq) ==
    IF ps = <<>> THEN <<>>
    ELSE IF Head(ps).id \in uniq THEN DedupFirst(Tail(ps), uniq)
    ELSE <<Head(ps)>> \o DedupFirst(Tail(ps), uniq \cup {Head(ps).id})

\* kalmate main, "uniq_map[p.id] = p" then uniq_map.values(): a dict keeps the
\* position of a key's first insertion and the value of its last assignment.
DedupLastValue(ps) ==
    LET firsts == DedupFirst(ps, {})
        lastAt(i) == CHOOSE k \in 1..Len(ps) :
                        /\ ps[k].id = i
                        /\ \A j \in 1..Len(ps) : ps[j].id = i => j <= k
    IN  [k \in 1..Len(firsts) |-> ps[lastAt(firsts[k].id)]]

\* Python's posts[:n].
Slice(ps, n) ==
    IF n >= 0 THEN SubSeq(ps, 1, IF n < Len(ps) THEN n ELSE Len(ps))
    ELSE SubSeq(ps, 1, Len(ps) + n)

Max(a, b) == IF a >= b THEN a ELSE b

----------------------------------------------------------------------------
(* State file and notifier *)

Empty == [i \in {} |-> 0]           \* the dict {}

NoFile == [kind |-> "missing", data |-> Empty]

\* load_seen: the mapping in the file, {} when the file is missing or does
\* not parse.
load_seen(f) == IF f.kind = "json" THEN f.data ELSE Empty

\* A save_seen that writes nothing.
save_seen_dropped(seen) == NoFile

\* save_seen: the file is replaced by the JSON text of the mapping.
save_seen(seen) == [kind |-> "json", data |-> seen]

\* The file of a save_seen that did not finish: write_text / open("w")
\* truncate the file in place and write the JSON text into it, so the file
\* holds a proper prefix of that text (possibly nothing), which is not JSON.
TornFile == [kind |-> "torn", data |-> Empty]

\* seen[p.id] = {"title": ..., "url": ..., "date": ..., "ts": now} for p in ps
Record(seen, ps, now) ==
    [i \in DOMAIN seen \cup IdsOf(ps) |->
        IF i \in IdsOf(ps)
        THEN LET p == ps[CHOOSE k \in 1..Len(ps) :
                            /\ ps[k].id = i
                            /\ \A j \in 1..Len(ps) : ps[j].id = i => j <= k]
             IN  [title |-> p.title, url |-> p.url, date |-> p.date, ts |-> now]
        ELSE seen[i]]

\* What can happen to one call of notify_telegram:
\*   "nocreds"  TG_BOT_TOKEN / TG_CHAT_ID unset: warning, return
\*   "ok"       requests.post answers 200
\*   "non200"   requests.post answers another status: warning, return
\*   "error"    requests.post raises (connection error, timeout)
TgOutcomes == {"nocreds", "ok", "non200", "error"}

\* notify_telegram returns normally unless requests.post raises; nothing in
\* notify_telegram or main catches that exception.
notify_raises(tg) == tg = "error"

TopNs == 0..MaxTopN

----------------------------------------------------------------------------
(* Change detection: one run of main() *)

\* Mutant: FORCE_SNAPSHOT is ignored.
want_snapshot_ignoring_force(markerExists, FORCE_SNAPSHOT) == ~markerExists

\* agent main: want_snapshot = not BASELINE_FLAG.exists(), forced to True by
\* FORCE_SNAPSHOT.
want_snapshot(markerExists, FORCE_SNAPSHOT) == (~markerExists) \/ FORCE_SNAPSHOT

\* kalmate main: baseline_needed = FIRST_RUN_NOTIFY and not marker exists.
baseline_needed(FIRST_RUN_NOTIFY, markerExists) == FIRST_RUN_NOTIFY /\ ~markerExists

\* Mutant: every observed post counts as new.
new_posts_all(posts, seen) == posts

\* new_posts = [p for p in posts if p.id not in seen]
new_posts(posts, seen) ==
    LET unseen(p) == p.id \notin DOMAIN seen
    IN  SelectSeq(posts, unseen)

\* Mutant: the baseline branch records only the posts it shows.
snapshot_recorded_shown_only(posts, topn) == topn

\* The posts the baseline branch records: "for p in posts: seen[p.id] = ...".
snapshot_recorded(posts, topn) == posts

\* The record a run leaves in `last`.
Outcome(start, flag, branch, posts, shown, tg, exit) ==
    [start |-> start, flag |-> flag, branch |-> branch, posts |-> posts,
     shown |-> shown, tg |-> tg, exit |-> exit]

NoRun == Outcome("none", FALSE, "none", <<>>, <<>>, "none", "return")

StartState(baseline) == IF baseline THEN "BASELINE_PENDING" ELSE "STEADY"

\* Mutant: the early return on an empty list is missing.
agent_no_posts_never(posts) == FALSE

\* agent: "if not posts: return".
agent_no_posts(posts) == posts = <<>>

\* agent: posts = collect_posts_by_click(page), whose last step drops repeated
\* ids, then posts.sort(key=key_func, reverse=True).
agent_posts(cands) == SortByKeyFunc(DedupFirst(cands, {}))

\* kalmate: uniq_map over all_posts, then sorted(..., key=sort_key_post,
\* reverse=True).
kalmate_posts(cands) == SortByPostKey(DedupLastValue(cands))

\* The sorted post lists a run can work on.
AgentObserved == {agent_posts(c) : c \in Candidates}
KalmateObserved == {kalmate_posts(c) : c \in Candidates}

\* agent main(), from load_seen() to its return, with the files it leaves;
\* posts is the collected list after the sort, tg what the call of
\* notify_telegram meets ("none" when the run makes no call).
AgentRun(file, mk, now, FORCE_SNAPSHOT, SNAPSHOT_TOP_N, tg, posts) ==
    LET seen  == load_seen(file)
        snap  == want_snapshot(mk, FORCE_SNAPSHOT)
        start == StartState(snap)
        topn  == Slice(posts, SNAPSHOT_TOP_N)
        new   == new_posts(posts, seen)
    IN  IF agent_no_posts(posts)
        THEN [file |-> file, marker |-> mk,
              last |-> Outcome(start, FORCE_SNAPSHOT, "noposts", posts, <<>>, "none", "return")]
        ELSE IF snap
        THEN IF notify_raises(tg)
             THEN [file |-> file, marker |-> mk,
                   last |-> Outcome(start, FORCE_SNAPSHOT, "baseline", posts,
                                    IdSeq(topn), tg, "raise")]
             ELSE [file |-> save_seen(Record(seen, snapshot_recorded(posts, topn), now)),
                   marker |-> TRUE,
                   last |-> Outcome(start, FORCE_SNAPSHOT, "baseline", posts,
                                    IdSeq(topn), tg, "return")]
        ELSE IF new # <<>>
        THEN IF notify_raises(tg)
             THEN [file |-> file, marker |-> mk,
                   last |-> Outcome(start, FORCE_SNAPSHOT, "new", posts,
                                    IdSeq(new), tg, "raise")]
             ELSE [file |-> save_seen(Record(seen, new, now)), marker |-> mk,
                   last |-> Outcome(start, FORCE_SNAPSHOT, "new", posts,
                                    IdSeq(new), tg, "return")]
        ELSE [file |-> file, marker |-> mk,
              last |-> Outcome(start, FORCE_SNAPSHOT, "nonew", posts, <<>>, "none", "return")]

\* The run reaches a call of notify_telegram.
AgentNotifies(file, mk, FORCE_SNAPSHOT, posts) ==
    /\ ~agent_no_posts(posts)
    /\ \/ want_snapshot(mk, FORCE_SNAPSHOT)
       \/ new_posts(posts, load_seen(file)) # <<>>

\* kalmate main(), likewise.  sublists: the seed pages yielded a sub-category.
KalmateRun(file, mk, now, FIRST_RUN_NOTIFY, FIRST_RUN_TOP_N, tg, sublists, all_posts_sorted) ==
    LET seen  == load_seen(file)
        base  == baseline_needed(FIRST_RUN_NOTIFY, mk)
        start == StartState(base)
        topn  == Slice(all_posts_sorted, Max(1, FIRST_RUN_TOP_N))
        new   == SortByPostKey(new_posts(all_posts_sorted, seen))
    IN  IF ~sublists
        THEN [file |-> file, marker |-> mk,
              last |-> Outcome(start, FIRST_RUN_NOTIFY, "nosublists", <<>>, <<>>, "none", "return")]
        ELSE IF base /\ all_posts_sorted # <<>>
        THEN IF notify_raises(tg)
             THEN [file |-> file, marker |-> mk,
                   last |-> Outcome(start, FIRST_RUN_NOTIFY, "baseline", all_posts_sorted,
                                    IdSeq(topn), tg, "raise")]
             ELSE [file |-> save_seen(Record(seen, snapshot_recorded(all_posts_sorted, topn), now)),
                   marker |-> TRUE,
                   last |-> Outcome(start, FIRST_RUN_NOTIFY, "baseline", all_posts_sorted,
                                    IdSeq(topn), tg, "return")]
        ELSE IF new # <<>>
        THEN IF notify_raises(tg)
             THEN [file |-> file, marker |-> mk,
                   last |-> Outcome(start, FIRST_RUN_NOTIFY, "new", all_posts_sorted,
                                    IdSeq(new), tg, "raise")]
             ELSE [file |-> save_seen(Record(seen, new, now)), marker |-> mk,
                   last |-> Outcome(start, FIRST_RUN_NOTIFY, "new", all_posts_sorted,
                                    IdSeq(new), tg, "return")]
        ELSE [file |-> file, marker |-> mk,
              last |-> Outcome(start, FIRST_RUN_NOTIFY,
                               IF all_posts_sorted = <<>> THEN "noposts" ELSE "nonew",
                               all_posts_sorted, <<>>, "none", "return")]

KalmateNotifies(file, mk, FIRST_RUN_NOTIFY, sublists, all_posts_sorted) ==
    /\ sublists
    /\ \/ baseline_needed(FIRST_RUN_NOTIFY, mk) /\ all_posts_sorted # <<>>
       \/ new_posts(all_posts_sorted, load_seen(file)) # <<>>

----------------------------------------------------------------------------
(* Date parsing: agent _to_ymd, kalmate first_date_in_text.  A text is a     *)
(* sequence of characters; "nyeon", "wol", "il" stand for the Korean year,   *)
(* month and day suffixes.                                                   *)

DigitChars == <<"0", "1", "2", "3", "4", "5", "6", "7", "8", "9">>
IsDigit(c) == \E k \in 1..Len(DigitChars) : DigitChars[k] = c
DigitVal(c) == (CHOOSE k \in 1..Len(DigitChars) : DigitChars[k] = c) - 1

\* \w: digits, letters (the Korean suffixes are letters), not punctuation or space.
IsWord(c) == IsDigit(c) \/ c \in {"x", "nyeon", "wol", "il"}

\* s[j .. j+n-1] are n digits.
DigitsAt(s, j, n) == j >= 1 /\ j + n - 1 <= Len(s) /\ \A k \in j..(j + n - 1) : IsDigit(s[k])

RECURSIVE Num(_, _, _)
\* int() of the n digits from s[j].
Num(s, j, n) == IF n = 0 THEN 0 ELSE Num(s, j, n - 1) * 10 + DigitVal(s[j + n - 1])

RECURSIVE SkipClass(_, _, _)
\* [class]* from s[j], greedy: the index behind the run.
SkipClass(s, j, class) ==
    IF j <= Len(s) /\ s[j] \in class THEN SkipClass(s, j + 1, class) ELSE j

\* \b at the gap before s[k].
Boundary(s, k) ==
    LET before == k > 1 /\ k - 1 <= Len(s) /\ IsWord(s[k - 1])
        after  == k >= 1 /\ k <= Len(s) /\ IsWord(s[k])
    IN  before # after

\* (20\d{2}) at s[i].
YearAt(s, i) == i + 3 <= Len(s) /\ s[i] = "2" /\ s[i + 1] = "0" /\ DigitsAt(s, i + 2, 2)

\* The three date patterns:
\*   "agent"    (20\d{2})[.\-년\s]*(\d{1,2})[.\-월\s]*(\d{1,2})         (_to_ymd)
\*   "numeric"  \b(20\d{2})[.\-/](\d{1,2})[.\-/](\d{1,2})\b             (DATE_PATS[0])
\*   "korean"   \b(20\d{2})\s*년\s*(\d{1,2})\s*월\s*(\d{1,2})\s*일\b     (DATE_PATS[1])

\* \s* then the suffix character: the index behind it, 0 without a match.
Suffixed(s, j, suffix) ==
    LET k == SkipClass(s, j, {" "})
    IN  IF k <= Len(s) /\ s[k] = suffix THEN k + 1 ELSE 0

\* [.\-/] at s[j]: the index behind it, 0 without a match.
OneSep(s, j) == IF j <= Len(s) /\ s[j] \in {".", "-", "/"} THEN j + 1 ELSE 0

\* The separator between year and month from s[j]: the index behind it.
Sep1(pat, s, j) ==
    CASE pat = "agent"   -> SkipClass(s, j, {".", "-", "nyeon", " "})
      [] pat = "numeric" -> OneSep(s, j)
      [] OTHER           -> LET k == Suffixed(s, j, "nyeon")
                            IN  IF k = 0 THEN 0 ELSE SkipClass(s, k, {" "})

\* The separator between month and day from s[j]: the index behind it.
Sep2(pat, s, j) ==
    CASE pat = "agent"   -> SkipClass(s, j, {".", "-", "wol", " "})
      [] pat = "numeric" -> OneSep(s, j)
      [] OTHER           -> LET k == Suffixed(s, j, "wol")
                            IN  IF k = 0 THEN 0 ELSE SkipClass(s, k, {" "})

\* What the pattern asks for behind the day ending before s[k].
PatEnd(pat, s, k) ==
    CASE pat = "agent"   -> TRUE
      [] pat = "numeric" -> Boundary(s, k)
      [] OTHER           -> LET e == Suffixed(s, k, "il") IN e # 0 /\ Boundary(s, e)

\* One attempt of a pattern at s[i]: the groups <<y, mo, d>> as integers,
\* <<>> without a match.  \d{1,2} is greedy: two digits are tried before one,
\* the later group first.
MatchAt(pat, s, i) ==
    IF ~YearAt(s, i) \/ (pat # "agent" /\ ~Boundary(s, i)) THEN <<>>
    ELSE LET j1 == Sep1(pat, s, i + 4)
             j2(mlen) == IF j1 = 0 \/ ~DigitsAt(s, j1, mlen) THEN 0
                         ELSE Sep2(pat, s, j1 + mlen)
             ok(mlen, dlen) == /\ j2(mlen) # 0
                               /\ DigitsAt(s, j2(mlen), dlen)
                               /\ PatEnd(pat, s, j2(mlen) + dlen)
             groups(mlen, dlen) == <<Num(s, i, 4), Num(s, j1, mlen), Num(s, j2(mlen), dlen)>>
         IN  IF ok(2, 2) THEN groups(2, 2)
             ELSE IF ok(2, 1) THEN groups(2, 1)
             ELSE IF ok(1, 2) THEN groups(1, 2)
             ELSE IF ok(1, 1) THEN groups(1, 1)
             ELSE <<>>

\* re.search / pat.search: the match at the leftmost position that has one.
Search(pat, s) ==
    LET hits == {i \in 1..Len(s) : MatchAt(pat, s, i) # <<>>}
    IN  IF hits = {} THEN <<>>
        ELSE MatchAt(pat, s, CHOOSE i \in hits : \A k \in hits : i <= k)

\* "{n:0wd}": n in decimal, padded with zeros to w characters (n < 10^w here).
RECURSIVE Fmt(_, _)
Fmt(n, w) == IF w = 0 THEN <<>> ELSE Fmt(n \div 10, w - 1) \o <<DigitChars[(n % 10) + 1]>>

\* f"{y:04d}-{mo:02d}-{d:02d}"
FormatYmd(g) == Fmt(g[1], 4) \o <<"-">> \o Fmt(g[2], 2) \o <<"-">> \o Fmt(g[3], 2)

None == <<>>

\* agent _to_ymd
to_ymd(s) ==
    LET g == Search("agent", s)
    IN  IF s = <<>> THEN None
        ELSE IF g = <<>> THEN None
        ELSE IF ~(1 <= g[2] /\ g[2] <= 12 /\ 1 <= g[3] /\ g[3] <= 31) THEN None
        ELSE FormatYmd(g)

\* kalmate first_date_in_text: the first pattern of DATE_PATS that matches
\* decides; int() of digit groups does not raise.
first_date_in_text(s) ==
    LET g1 == Search("numeric", s)
        g2 == Search("korean", s)
    IN  IF g1 # <<>> THEN FormatYmd(g1)
        ELSE IF g2 # <<>> THEN FormatYmd(g2)
        ELSE None

\* The texts handed to the parsers: a year, a month and a day in one of the
\* written forms, with or without a character before and behind.
YearTexts == {<<"2", "0", "2", "5">>, <<"1", "9", "9", "9">>}
MonthTexts == {<<"2">>, <<"0", "2">>, <<"1", "2">>, <<"1", "3">>, <<"0", "0">>}
DayTexts == {<<"2", "8">>, <<"4", "0">>, <<"3", "1">>, <<"3", "2">>, <<"0">>, <<"1">>}
Affixes == {<<>>, <<"x">>, <<"7">>, <<" ">>}
Written(y, m, d) ==
    {y \o sep \o m \o sep \o d : sep \in {<<"-">>, <<".">>, <<"/">>, <<" ">>, <<>>}}
    \cup {y \o <<"nyeon", " ">> \o m \o <<"wol", " ">> \o d \o <<"il">>}
DateTexts ==
    {<<>>} \cup UNION {{pre \o w \o post : w \in Written(y, m, d)} :
                        y \in YearTexts, m \in MonthTexts, d \in DayTexts,
                        pre \in Affixes, post \in Affixes}

----------------------------------------------------------------------------
(* The end-to-end scenario of the specification, as inputs of three runs:   *)
(* default flags, snapshot size 1, a notifier that delivers every message   *)
(* it is given.                                                             *)

ScenarioListing(k) ==
    IF k = 3 THEN <<Post(3, DateOf(3)), Post(1, DateOf(1)), Post(2, DateOf(2))>>
    ELSE <<Post(1, DateOf(1)), Post(2, DateOf(2))>>

\* What the watcher w extracts from the listing of scenario run k.
ScenarioPosts(w, k) ==
    IF w = "agent" THEN agent_posts(ScenarioListing(k)) ELSE kalmate_posts(ScenarioListing(k))

ScenarioNext(k, defaultFlags, topN, tg, posts, w) ==
    IF /\ k >= 0
       /\ k < 3
       /\ defaultFlags
       /\ topN = 1
       /\ tg \in {"ok", "none"}
       /\ posts = ScenarioPosts(w, k + 1)
    THEN k + 1
    ELSE -1

----------------------------------------------------------------------------
(* Values of the variables a specification does not use *)

NoList == [stage |-> "none", cands |-> <<>>, deduped |-> <<>>, sorted |-> <<>>]
NoClick == [pc |-> "none"]
NoCfg == [flag |-> FALSE, topN |-> 0]
NoSent == [count |-> [i \in Ids |-> 0], msgs |-> 0, aborted |-> FALSE]

----------------------------------------------------------------------------
(* Actions *)

SnapshotAttempted(l) == l.branch = "baseline"

\* One run of agent_koreanair_watcher.py.
AgentMain ==
    /\ watcher = "agent"
    /\ clock < MaxRuns
    /\ \E FORCE_SNAPSHOT \in BOOLEAN, SNAPSHOT_TOP_N \in TopNs, posts \in AgentObserved :
       \E tg \in IF AgentNotifies(stateFile, marker, FORCE_SNAPSHOT, posts)
                 THEN TgOutcomes ELSE {"none"} :
         LET r == AgentRun(stateFile, marker, clock + 1, FORCE_SNAPSHOT,
                           SNAPSHOT_TOP_N, tg, posts)
         IN  /\ stateFile' = r.file
             /\ marker' = r.marker
             /\ last' = r.last
             /\ attempts' = attempts + (IF SnapshotAttempted(r.last) THEN 1 ELSE 0)
             /\ forced' = (forced \/ FORCE_SNAPSHOT)
             /\ scen' = ScenarioNext(scen, ~FORCE_SNAPSHOT, SNAPSHOT_TOP_N, tg,
                                     posts, watcher)
    /\ clock' = clock + 1
    /\ UNCHANGED <<watcher, text, parsed, lst, click, cfg, sent>>

\* One run of kalmate_notice_watcher_multi.py.
KalmateMain ==
    /\ watcher = "kalmate"
    /\ clock < MaxRuns
    /\ \E FIRST_RUN_NOTIFY \in BOOLEAN, FIRST_RUN_TOP_N \in TopNs,
          sublists \in BOOLEAN, posts \in KalmateObserved :
       \E tg \in IF KalmateNotifies(stateFile, marker, FIRST_RUN_NOTIFY, sublists, posts)
                 THEN TgOutcomes ELSE {"none"} :
         LET r == KalmateRun(stateFile, marker, clock + 1, FIRST_RUN_NOTIFY,
                             FIRST_RUN_TOP_N, tg, sublists, posts)
         IN  /\ stateFile' = r.file
             /\ marker' = r.marker
             /\ last' = r.last
             /\ attempts' = attempts + (IF SnapshotAttempted(r.last) THEN 1 ELSE 0)
             /\ forced' = forced
             /\ scen' = ScenarioNext(scen, FIRST_RUN_NOTIFY /\ sublists,
                                     FIRST_RUN_TOP_N, tg, posts, watcher)
    /\ clock' = clock + 1
    /\ UNCHANGED <<watcher, text, parsed, lst, click, cfg, sent>>

Init ==
    /\ watcher \in {"agent", "kalmate"}
    /\ stateFile = NoFile
    /\ marker = FALSE
    /\ clock = 0
    /\ last = NoRun
    /\ attempts = 0
    /\ forced = FALSE
    /\ scen = 0
    /\ text = <<>>
    /\ parsed = <<>>
    /\ lst = NoList
    /\ click = NoClick
    /\ cfg = NoCfg
    /\ sent = NoSent

Next == AgentMain \/ KalmateMain

Spec == Init /\ [][Next]_vars

\* The date parsers on their own: a text is given, the watcher's parser is
\* applied to it; parsed = <<>> until then, <<result>> afterwards.
InitDate ==
    /\ watcher \in {"agent", "kalmate"}
    /\ stateFile = NoFile
    /\ marker = FALSE
    /\ clock = 0
    /\ last = NoRun
    /\ attempts = 0
    /\ forced = FALSE
    /\ scen = 0
    /\ text \in DateTexts
    /\ parsed = <<>>
    /\ lst = NoList
    /\ click = NoClick
    /\ cfg = NoCfg
    /\ sent = NoSent

AgentToYmd ==
    /\ watcher = "agent"
    /\ parsed = <<>>
    /\ parsed' = <<to_ymd(text)>>
    /\ UNCHANGED <<watcher, stateFile, marker, clock, last, attempts, forced, scen, text,
                   lst, click, cfg, sent>>

KalmateFirstDate ==
    /\ watcher = "kalmate"
    /\ parsed = <<>>
    /\ parsed' = <<first_date_in_text(text)>>
    /\ UNCHANGED <<watcher, stateFile, marker, clock, last, attempts, forced, scen, text,
                   lst, click, cfg, sent>>

NextDate == AgentToYmd \/ KalmateFirstDate

SpecDate == InitDate /\ [][NextDate]_vars

----------------------------------------------------------------------------
(* Runs of one deployment: the environment variables are set once and every  *)
(* run sees the same values.  `sent` counts, per post id, the messages the   *)
(* Telegram API accepted that listed the post.                               *)

\* Whether the message of a call of notify_telegram can have reached the
\* API: it has when the answer was 200; when requests.post raised, the
\* request may or may not have been accepted before the error.
Deliveries(tg) ==
    IF tg = "ok" THEN {TRUE} ELSE IF notify_raises(tg) THEN BOOLEAN ELSE {FALSE}

\* `sent` after the run that left l, whose message was delivered or not.
Delivered(s, l, delivered) ==
    [count |-> [i \in Ids |-> s.count[i] + (IF delivered /\ i \in {l.shown[k] : k \in 1..Len(l.shown)}
                                            THEN 1 ELSE 0)],
     msgs |-> s.msgs + (IF delivered THEN 1 ELSE 0),
     aborted |-> (s.aborted \/ l.exit = "raise")]

InitFixed ==
    /\ watcher \in {"agent", "kalmate"}
    /\ stateFile = NoFile
    /\ marker = FALSE
    /\ clock = 0
    /\ last = NoRun
    /\ attempts = 0
    /\ forced = FALSE
    /\ scen = 0
    /\ text = <<>>
    /\ parsed = <<>>
    /\ lst = NoList
    /\ click = NoClick
    /\ \E flag \in BOOLEAN, topN \in TopNs : cfg = [flag |-> flag, topN |-> topN]
    /\ sent = NoSent

\* One run of agent_koreanair_watcher.py with FORCE_SNAPSHOT = cfg.flag and
\* SNAPSHOT_TOP_N = cfg.topN.
AgentMainFixed ==
    /\ watcher = "agent"
    /\ clock < MaxRuns
    /\ \E posts \in AgentObserved :
       \E tg \in IF AgentNotifies(stateFile, marker, cfg.flag, posts)
                 THEN TgOutcomes ELSE {"none"} :
       \E delivered \in Deliveries(tg) :
         LET r == AgentRun(stateFile, marker, clock + 1, cfg.flag, cfg.topN, tg, posts)
         IN  /\ stateFile' = r.file
             /\ marker' = r.marker
             /\ last' = r.last
             /\ attempts' = attempts + (IF SnapshotAttempted(r.last) THEN 1 ELSE 0)
             /\ forced' = (forced \/ cfg.flag)
             /\ scen' = ScenarioNext(scen, ~cfg.flag, cfg.topN, tg, posts, watcher)
             /\ sent' = Delivered(sent, r.last, delivered)
    /\ clock' = clock + 1
    /\ UNCHANGED <<watcher, text, parsed, lst, click, cfg>>

\* One run of kalmate_notice_watcher_multi.py with FIRST_RUN_NOTIFY = cfg.flag
\* and FIRST_RUN_TOP_N = cfg.topN.
KalmateMainFixed ==
    /\ watcher = "kalmate"
    /\ clock < MaxRuns
    /\ \E sublists \in BOOLEAN, posts \in KalmateObserved :
       \E tg \in IF KalmateNotifies(stateFile, marker, cfg.flag, sublists, posts)
                 THEN TgOutcomes ELSE {"none"} :
       \E delivered \in Deliveries(tg) :
         LET r == KalmateRun(stateFile, marker, clock + 1, cfg.flag, cfg.topN, tg,
                             sublists, posts)
         IN  /\ stateFile' = r.file
             /\ marker' = r.marker
             /\ last' = r.last
             /\ attempts' = attempts + (IF SnapshotAttempted(r.last) THEN 1 ELSE 0)
             /\ forced' = forced
             /\ scen' = ScenarioNext(scen, cfg.flag /\ sublists, cfg.topN, tg, posts, watcher)
             /\ sent' = Delivered(sent, r.last, delivered)
    /\ clock' = clock + 1
    /\ UNCHANGED <<watcher, text, parsed, lst, click, cfg>>

NextFixed == AgentMainFixed \/ KalmateMainFixed

SpecFixed == InitFixed /\ [][NextFixed]_vars

----------------------------------------------------------------------------
(* Runs of main() with the process killed while save_seen writes the file.   *)

\* What the run r leaves when it is killed inside save_seen: the notifier has
\* been called, the state file is torn, and the statements after save_seen
\* (the marker write of the baseline branch) have not run.
KilledInSave(r, mk) ==
    [file |-> TornFile, marker |-> mk, last |-> [r.last EXCEPT !.exit = "killed"]]

\* A run of the agent watcher that reaches save_seen and is killed in it.
AgentKilledInSave ==
    /\ watcher = "agent"
    /\ clock < MaxRuns
    /\ \E FORCE_SNAPSHOT \in BOOLEAN, SNAPSHOT_TOP_N \in TopNs, posts \in AgentObserved :
         /\ AgentNotifies(stateFile, marker, FORCE_SNAPSHOT, posts)
         /\ \E tg \in {t \in TgOutcomes : ~notify_raises(t)} :
              LET r == KilledInSave(AgentRun(stateFile, marker, clock + 1, FORCE_SNAPSHOT,
                                             SNAPSHOT_TOP_N, tg, posts), marker)
              IN  /\ stateFile' = r.file
                  /\ marker' = r.marker
                  /\ last' = r.last
                  /\ attempts' = attempts + (IF SnapshotAttempted(r.last) THEN 1 ELSE 0)
                  /\ forced' = (forced \/ FORCE_SNAPSHOT)
                  /\ scen' = -1
    /\ clock' = clock + 1
    /\ UNCHANGED <<watcher, text, parsed, lst, click, cfg, sent>>

\* A run of the kalmate watcher that reaches save_seen and is killed in it.
KalmateKilledInSave ==
    /\ watcher = "kalmate"
    /\ clock < MaxRuns
    /\ \E FIRST_RUN_NOTIFY \in BOOLEAN, FIRST_RUN_TOP_N \in TopNs, posts \in KalmateObserved :
         /\ KalmateNotifies(stateFile, marker, FIRST_RUN_NOTIFY, TRUE, posts)
         /\ \E tg \in {t \in TgOutcomes : ~notify_raises(t)} :
              LET r == KilledInSave(KalmateRun(stateFile, marker, clock + 1, FIRST_RUN_NOTIFY,
                                               FIRST_RUN_TOP_N, tg, TRUE, posts), marker)
              IN  /\ stateFile' = r.file
                  /\ marker' = r.marker
                  /\ last' = r.last
                  /\ attempts' = attempts + (IF SnapshotAttempted(r.last) THEN 1 ELSE 0)
                  /\ forced' = forced
                  /\ scen' = -1
    /\ clock' = clock + 1
    /\ UNCHANGED <<watcher, text, parsed, lst, click, cfg, sent>>

NextCrash == AgentMain \/ KalmateMain \/ AgentKilledInSave \/ KalmateKilledInSave

SpecCrash == Init /\ [][NextCrash]_vars

----------------------------------------------------------------------------
(* Dedup and ordering on their own: a candidate list is given, the watcher   *)
(* dedups it, then sorts what the dedup left.                                *)

ListDates == {NoDate, <<2025, 3, 1>>, <<2025, 3, 5>>}

\* Candidates as the extractors can yield them: the same id may come with
\* differing dates (a date that was not found on one visit, a row listed in
\* two sub-lists).
ListPosts == {Post(i, d) : i \in Ids, d \in ListDates}

InitList ==
    /\ watcher \in {"agent", "kalmate"}
    /\ stateFile = NoFile
    /\ marker = FALSE
    /\ clock = 0
    /\ last = NoRun
    /\ attempts = 0
    /\ forced = FALSE
    /\ scen = 0
    /\ text = <<>>
    /\ parsed = <<>>
    /\ \E cands \in SeqsUpTo(ListPosts, MaxList) :
          lst = [stage |-> "cands", cands |-> cands, deduped |-> <<>>, sorted |-> <<>>]
    /\ click = NoClick
    /\ cfg = NoCfg
    /\ sent = NoSent

\* agent collect_posts_by_click: "uniq, out = set(), []" ... "return out"
AgentDedup ==
    /\ watcher = "agent"
    /\ lst.stage = "cands"
    /\ lst' = [lst EXCEPT !.stage = "deduped", !.deduped = DedupFirst(lst.cands, {})]
    /\ UNCHANGED <<mainVars, dateVars, click, cfg, sent>>

\* kalmate main: "uniq_map[p.id] = p" over every post of every sub-list
KalmateDedup ==
    /\ watcher = "kalmate"
    /\ lst.stage = "cands"
    /\ lst' = [lst EXCEPT !.stage = "deduped", !.deduped = DedupLastValue(lst.cands)]
    /\ UNCHANGED <<mainVars, dateVars, click, cfg, sent>>

\* agent main: posts.sort(key=key_func, reverse=True)
AgentSort ==
    /\ watcher = "agent"
    /\ lst.stage = "deduped"
    /\ lst' = [lst EXCEPT !.stage = "sorted", !.sorted = SortByKeyFunc(lst.deduped)]
    /\ UNCHANGED <<mainVars, dateVars, click, cfg, sent>>

\* kalmate main: all_posts_sorted = sorted(uniq_map.values(), key=sort_key_post, reverse=True)
KalmateSort ==
    /\ watcher = "kalmate"
    /\ lst.stage = "deduped"
    /\ lst' = [lst EXCEPT !.stage = "sorted", !.sorted = SortByPostKey(lst.deduped)]
    /\ UNCHANGED <<mainVars, dateVars, click, cfg, sent>>

NextList == AgentDedup \/ KalmateDedup \/ AgentSort \/ KalmateSort

SpecList == InitList /\ [][NextList]_vars

----------------------------------------------------------------------------
(* The candidate loop of agent collect_posts_by_click.  The page shows the   *)
(* listing as loaded from START_URL, a detail page, or something else.       *)

Pages == {"listing", "detail", "elsewhere"}

\* is_detail(url): the URL matches DETAIL_OK.
is_detail(page) == page = "detail"

\* What el.inner_text() and the filters on it do with a candidate.
TextOutcomes == {"raises", "skipped", "passes"}
\* el.click / el.dispatch_event: one of them worked, or both raised.
ClickOutcomes == {"clicked", "raises"}
\* Where the URL went within the wait of quick_nav_change; "none": no change.
NavOutcomes == Pages \cup {"none"}
\* page.go_back and page.goto(START_URL): returned or raised.
CallOutcomes == {"ok", "raises"}

\* "except Exception as e": page.goto(START_URL, ...) in a try/except that
\* passes; the page the loop continues on.
recover(page, goto) == IF goto = "ok" THEN "listing" ELSE page

\* One pass through the body of "for i in range(n)" with the page on `page`:
\* the page it leaves, whether a post was appended, and the path taken.
Iteration(page, txt, clk, nav, back, goto) ==
    IF txt = "raises"
    THEN [page |-> recover(page, goto), appended |-> FALSE,
          path |-> IF goto = "ok" THEN "text-raised-reloaded" ELSE "text-raised-reload-failed"]
    ELSE IF txt = "skipped"
    THEN [page |-> page, appended |-> FALSE, path |-> "skipped"]
    ELSE IF clk = "raises"
    THEN [page |-> page, appended |-> FALSE, path |-> "click-failed"]
    ELSE IF nav = "none"
    THEN [page |-> page, appended |-> FALSE, path |-> "no-navigation"]
    ELSE IF back = "ok"
    THEN [page |-> page, appended |-> is_detail(nav),
          path |-> IF is_detail(nav) THEN "detail-back" ELSE "elsewhere-back"]
    ELSE [page |-> recover(nav, goto), appended |-> is_detail(nav),
          path |-> IF goto = "ok" THEN "go-back-raised-reloaded"
                   ELSE "go-back-raised-reload-failed"]

\* main has loaded START_URL; the loop is about to start on n candidates.
InitClick ==
    /\ watcher = "agent"
    /\ stateFile = NoFile
    /\ marker = FALSE
    /\ clock = 0
    /\ last = NoRun
    /\ attempts = 0
    /\ forced = FALSE
    /\ scen = 0
    /\ text = <<>>
    /\ parsed = <<>>
    /\ lst = NoList
    /\ \E n \in 0..MaxClick :
          click = [pc |-> "loop", i |-> 0, n |-> n, page |-> "listing",
                   found |-> 0, path |-> "none"]
    /\ cfg = NoCfg
    /\ sent = NoSent

\* The body of the loop for candidate i.
ClickCandidate ==
    /\ click.pc = "loop"
    /\ click.i < click.n
    /\ \E txt \in TextOutcomes, clk \in ClickOutcomes, nav \in NavOutcomes,
          back \in CallOutcomes, goto \in CallOutcomes :
          /\ nav # click.page      \* quick_nav_change: page.url != old
          /\ LET r == Iteration(click.page, txt, clk, nav, back, goto)
             IN  click' = [click EXCEPT !.i = click.i + 1,
                                        !.page = r.page,
                                        !.found = click.found + (IF r.appended THEN 1 ELSE 0),
                                        !.path = r.path]
    /\ UNCHANGED <<mainVars, dateVars, lst, cfg, sent>>

\* The loop is over: dedup and "return out".
ClickReturn ==
    /\ click.pc = "loop"
    /\ click.i = click.n
    /\ click' = [click EXCEPT !.pc = "done"]
    /\ UNCHANGED <<mainVars, dateVars, lst, cfg, sent>>

NextClick == ClickCandidate \/ ClickReturn

SpecClick == InitClick /\ [][NextClick]_vars

----------------------------------------------------------------------------
(* Properties *)

Seen == load_seen(stateFile)            \* what the next run will load
Ran == clock' # clock                   \* this step is a run of main()
ShownIds(l) == {l.shown[k] : k \in 1..Len(l.shown)}

\* C1: the end-to-end scenario.  From an empty store without marker, with
\* default flags, snapshot size 1 and a notifier that delivers: run 1 on
\* [P1, P2] delivers a snapshot showing exactly P1, leaves P1 and P2 seen and
\* the marker set; run 2 on the same listing finds nothing new and makes no
\* call; run 3 on [P3, P1, P2] delivers exactly P3 and leaves P1, P2, P3 seen.
C1_Scenario ==
    /\ scen = 1 => /\ last.branch = "baseline"
                   /\ last.shown = <<1>>
                   /\ last.tg = "ok"
                   /\ DOMAIN Seen = {1, 2}
                   /\ marker
    /\ scen = 2 => /\ last.branch = "nonew"
                   /\ last.shown = <<>>
                   /\ last.tg = "none"
                   /\ DOMAIN Seen = {1, 2}
                   /\ marker
    /\ scen = 3 => /\ last.branch = "new"
                   /\ last.shown = <<3>>
                   /\ last.tg = "ok"
                   /\ DOMAIN Seen = {1, 2, 3}

C1_ScenarioCompleted == scen = 3 /\ clock = 3 /\ last.shown = <<3>>

\* The previous run returned after saving its seen-set, and this run observes
\* the same set of post ids.
SecondRunOnSameListing ==
    /\ Ran
    /\ last.exit = "return"
    /\ last.branch \in {"baseline", "new"}
    /\ IdsOf(last'.posts) = IdsOf(last.posts)

QuietRun ==
    /\ last'.tg = "none"
    /\ last'.shown = <<>>
    /\ stateFile' = stateFile

\* C2 (as stated): a run on the listing of the previous run, which completed
\* and saved its seen-set, finds nothing new, sends no notification and adds
\* nothing to the seen-set.
C2_SecondRunQuiet == [][SecondRunOnSameListing => QuietRun]_vars

\* C2 (amended): the same, for a second run that starts in STEADY.
C2_SteadySecondRunQuiet ==
    [][SecondRunOnSameListing /\ last'.start = "STEADY" => QuietRun /\ last'.branch = "nonew"]_vars

C2_SecondRunHappened ==
    /\ scen = 2
    /\ last.start = "STEADY"
    /\ last.branch = "nonew"
    /\ IdsOf(last.posts) = DOMAIN Seen

\* C3: without the force flag a snapshot notification is attempted in at most
\* one run, and once a run has made the attempt the marker exists, whatever
\* became of the delivery.
C3_BaselineOnce ==
    /\ ~forced => attempts <= 1
    /\ SnapshotAttempted(last) => marker

\* C4: after a baseline run that observed posts, every observed id is in the
\* seen-set, not only the ids shown in the snapshot.
C4_BaselineRecordsAll ==
    (last.branch = "baseline" /\ last.posts # <<>>) => IdsOf(last.posts) \subseteq DOMAIN Seen

\* C5: a steady run notifies exactly the observed posts whose id is not in
\* the seen-set it loaded, adds exactly those ids, and makes no call when
\* there are none.
C5_SteadyNewExact ==
    [][(Ran /\ last'.start = "STEADY") =>
         LET new == IdsOf(last'.posts) \ DOMAIN Seen
         IN  /\ ShownIds(last') = new
             /\ DOMAIN Seen' = DOMAIN Seen \cup new
             /\ new = {} => last'.tg = "none"]_vars

\* C6: a run that attempted a notification whose delivery failed has still
\* saved the posts it notified about.
C6_FailedDeliveryPersists ==
    last.tg \in {"nocreds", "non200", "error"} =>
        IF last.branch = "baseline" THEN IdsOf(last.posts) \subseteq DOMAIN Seen
        ELSE ShownIds(last) \subseteq DOMAIN Seen

\* C7: a run whose extraction yields no post makes no call of the notifier
\* and leaves the state file and the marker as they were.
C7_NoPostsNoEffect ==
    [][(Ran /\ last'.posts = <<>>) =>
         /\ last'.tg = "none"
         /\ last'.shown = <<>>
         /\ stateFile' = stateFile
         /\ marker' = marker]_vars

C7_EmptyRunOverState ==
    /\ last.posts = <<>>
    /\ last.start = "BASELINE_PENDING"
    /\ last.flag
    /\ stateFile.kind = "json"

\* C8 (as stated): a run starts in BASELINE_PENDING exactly if the marker is
\* missing or the watcher's flag (FORCE_SNAPSHOT, FIRST_RUN_NOTIFY) is set.
C8_StartIffNoMarkerOrFlag ==
    [][Ran => (last'.start = "BASELINE_PENDING" <=> (~marker \/ last'.flag))]_vars

\* C8 (amended): agent starts in BASELINE_PENDING exactly if the marker is
\* missing or FORCE_SNAPSHOT is set; kalmate exactly if FIRST_RUN_NOTIFY is
\* set and the marker is missing.
C8_StartPerWatcher ==
    [][Ran => (last'.start = "BASELINE_PENDING" <=>
                 IF watcher = "agent" THEN ~marker \/ last'.flag
                 ELSE last'.flag /\ ~marker)]_vars

C8_KalmateSteadyWithoutMarker ==
    /\ watcher = "kalmate"
    /\ clock > 0
    /\ ~last.flag
    /\ ~marker
    /\ last.start = "STEADY"
    /\ last.branch = "new"

\* C9: a record of the seen-set, once written, is never changed or removed
\* by a later run.
C9_WriteOnce ==
    [][\A i \in DOMAIN Seen : i \in DOMAIN Seen' /\ Seen'[i] = Seen[i]]_vars

Txt_2025_13_40 == <<"2", "0", "2", "5", "-", "1", "3", "-", "4", "0">>
Txt_2025_02_28 == <<"2", "0", "2", "5", "-", "0", "2", "-", "2", "8">>

\* Month and day of a date string "YYYY-MM-DD".
MonthOf(date) == Num(date, 6, 2)
DayOf(date) == Num(date, 9, 2)

\* C10: a date returned by either watcher's parser has month 1..12 and day
\* 1..31; "2025-13-40" gives no date, "2025-02-28" gives 2025-02-28.
C10_DatesValid ==
    parsed # <<>> =>
        /\ parsed[1] # None => /\ MonthOf(parsed[1]) \in 1..12
                               /\ DayOf(parsed[1]) \in 1..31
        /\ text = Txt_2025_13_40 => parsed[1] = None
        /\ text = Txt_2025_02_28 => parsed[1] = Txt_2025_02_28

----------------------------------------------------------------------------
(* Deduplication and ordering *)

Deduped == lst.stage \in {"deduped", "sorted"}

\* The positions of lst.cands that hold the first / the last post of id i.
FirstAt(i) == CHOOSE k \in 1..Len(lst.cands) :
                 lst.cands[k].id = i /\ \A j \in 1..(k - 1) : lst.cands[j].id # i
LastAt(i) == CHOOSE k \in 1..Len(lst.cands) :
                lst.cands[k].id = i /\ \A j \in (k + 1)..Len(lst.cands) : lst.cands[j].id # i

\* The ids of lst.cands in the order of their first occurrence.
FirstSeenIds ==
    LET firsts == {k \in 1..Len(lst.cands) : \A j \in 1..(k - 1) : lst.cands[j].id # lst.cands[k].id}
        nth(n) == CHOOSE k \in firsts : Cardinality({j \in firsts : j <= k}) = n
    IN  [n \in 1..Cardinality(firsts) |-> lst.cands[nth(n)].id]

\* C11 as stated: the deduplicated list holds each id once, in the order of
\* the ids' first occurrences, and the post kept for an id is its first
\* candidate: later duplicates are dropped.  In both watchers.
C11_DedupFirstSeen ==
    Deduped =>
        /\ IdSeq(lst.deduped) = FirstSeenIds
        /\ \A k \in 1..Len(lst.deduped) : lst.deduped[k] = lst.cands[FirstAt(lst.deduped[k].id)]

\* C11 amended: each id once, in the order of the ids' first occurrences, in
\* both watchers; the post kept for an id is its first candidate in the agent
\* watcher and its last candidate in the kalmate watcher.
C11_DedupPerWatcher ==
    Deduped =>
        /\ IdSeq(lst.deduped) = FirstSeenIds
        /\ \A k \in 1..Len(lst.deduped) :
              lst.deduped[k] = lst.cands[IF watcher = "agent"
                                         THEN FirstAt(lst.deduped[k].id)
                                         ELSE LastAt(lst.deduped[k].id)]

\* Candidates with ids [1, 2, 1, 3] whose two posts of id 1 differ have been
\* deduplicated by the kalmate watcher.
C11_DuplicateDeduped ==
    /\ watcher = "kalmate"
    /\ lst.stage = "deduped"
    /\ IdSeq(lst.cands) = <<1, 2, 1, 3>>
    /\ lst.cands[1] # lst.cands[3]
    /\ IdSeq(lst.deduped) = <<1, 2, 3>>

Dated(p) == p.date # NoDate

\* Date a is later than date b (both present).
Later(a, b) ==
    \/ a[1] > b[1]
    \/ a[1] = b[1] /\ a[2] > b[2]
    \/ a[1] = b[1] /\ a[2] = b[2] /\ a[3] > b[3]

PositionIn(ps, p) == CHOOSE k \in 1..Len(ps) : ps[k] = p

\* The sorted list holds the posts of the deduplicated list, dated posts by
\* descending date, undated posts behind them.
DateDescending ==
    /\ Len(lst.sorted) = Len(lst.deduped)
    /\ {lst.sorted[k] : k \in 1..Len(lst.sorted)} = {lst.deduped[k] : k \in 1..Len(lst.deduped)}
    /\ \A a, b \in 1..Len(lst.sorted) :
          a < b => /\ Dated(lst.sorted[b]) => Dated(lst.sorted[a])
                   /\ (Dated(lst.sorted[a]) /\ Dated(lst.sorted[b]))
                         => ~Later(lst.sorted[b].date, lst.sorted[a].date)

\* Posts a and b of the sorted list that keep their relative order of the
\* deduplicated list.
KeepOrder(a, b) ==
    PositionIn(lst.deduped, lst.sorted[a]) < PositionIn(lst.deduped, lst.sorted[b])

\* C12 as stated: sorted by date descending, undated posts behind all dated
\* ones, and posts of equal date (and the undated posts) in their relative
\* order of the deduplicated list.  In both watchers.
C12_StableDateOrder ==
    lst.stage = "sorted" =>
        /\ DateDescending
        /\ \A a, b \in 1..Len(lst.sorted) :
              (a < b /\ lst.sorted[a].date = lst.sorted[b].date) => KeepOrder(a, b)

\* C12 amended: sorted by date descending, undated posts behind all dated
\* ones; posts of equal date (and the undated posts) keep their relative
\* order in the agent watcher and are in descending seq_no order in the
\* kalmate watcher.
C12_OrderPerWatcher ==
    lst.stage = "sorted" =>
        /\ DateDescending
        /\ \A a, b \in 1..Len(lst.sorted) :
              (a < b /\ lst.sorted[a].date = lst.sorted[b].date) =>
                  IF watcher = "agent" THEN KeepOrder(a, b)
                  ELSE lst.sorted[a].id > lst.sorted[b].id

\* The kalmate watcher has sorted an undated post and two posts of one date
\* that the deduplicated list held in ascending seq_no order.
C12_EqualDatesSorted ==
    /\ watcher = "kalmate"
    /\ lst.stage = "sorted"
    /\ lst.deduped = <<Post(1, NoDate), Post(2, <<2025, 3, 1>>), Post(3, <<2025, 3, 1>>)>>
    /\ lst.sorted = <<Post(3, <<2025, 3, 1>>), Post(2, <<2025, 3, 1>>), Post(1, NoDate)>>

----------------------------------------------------------------------------
(* Click collection *)

\* C13: whatever happened to the candidates so far, the loop goes on to the
\* end of the batch (it returns only after candidate n), and whenever a
\* candidate is about to be attempted the page is on the original listing.
C13_BackOnListing ==
    /\ click.pc = "done" => click.i = click.n
    /\ (click.pc = "loop" /\ click.i < click.n) => click.page = "listing"

----------------------------------------------------------------------------
(* Crash during save *)

\* The ids the run recorded in `last` was about to save.
SavingIds(l) == IF l.branch = "baseline" THEN IdsOf(l.posts) ELSE ShownIds(l)

\* C14: after a run that was killed inside save_seen, load_seen gets from the
\* file the mapping of before the run or the mapping the run was saving; in
\* particular the next run does not find the marker present and ids missing
\* that were seen before.
C14_CrashSafeSave ==
    [][(Ran /\ last'.exit = "killed") =>
         /\ \/ Seen' = Seen
            \/ DOMAIN Seen' = DOMAIN Seen \cup SavingIds(last')
         /\ marker' => DOMAIN Seen \subseteq DOMAIN Seen']_vars

----------------------------------------------------------------------------
(* Notifications of one deployment *)

\* The agent watcher runs without FORCE_SNAPSHOT.
NoForceFlag == watcher = "agent" => ~cfg.flag

\* Every run so far ran to its end: none was ended by an exception.
RunsCompleted == ~sent.aborted

\* C15: with a fixed configuration, no force flag and the state file left
\* alone, after any number of completed runs every post id has been listed
\* in at most one delivered message (the snapshot or one new-post message),
\* and there is at most one delivered message per run.
C15_AtMostOnce ==
    (NoForceFlag /\ RunsCompleted) =>
        /\ \A i \in Ids : sent.count[i] <= 1
        /\ sent.msgs <= clock

\* Three completed runs without force flag: a snapshot that listed post 1,
\* and later a new-post message that listed post 3.
C15_SnapshotThenNewPost ==
    /\ NoForceFlag
    /\ RunsCompleted
    /\ clock = 3
    /\ last.branch = "new"
    /\ last.tg = "ok"
    /\ attempts = 1
    /\ sent.msgs = 2
    /\ sent.count[1] = 1
    /\ sent.count[3] = 1

====
